---------------------------- MODULE Spec2Model ----------------------------
(***************************************************************************)
(* Model of connect-cli's extension project validation pipeline            *)
(* (connect/cli/plugins/project/extension/validations.py) and of the       *)
(* translation attributes synchronizer                                     *)
(* (connect/cli/plugins/shared/translation_attr_sync.py).                  *)
(*                                                                         *)
(* Python dicts are functions whose DOMAIN is the set of keys present; a   *)
(* dict iterates in insertion order, which the code fixes for              *)
(* extension_classes (the order of possible_extensions).  A ValidationItem *)
(* keeps its level, the fixed part of its message and the interpolated     *)
(* value; the file/line context, which no check reads back, is left out.   *)
(***************************************************************************)
EXTENDS Integers, Sequences, FiniteSets, TLC

VARIABLES
    project,            \* the project directory the checks read (fixed in a run)
    context,            \* the driver's accumulated context dict
    validation_items,   \* the driver's concatenated diagnostics
    idx,                \* number of validators the driver has called
    outcomes,           \* history: the result each called validator returned
    halted,             \* the driver left its loop
    disk,               \* files on disk, by name
    heap,               \* workbook objects load_workbook has created
    wb,                 \* self._wb: 0 (None) or an index into heap
    ws,                 \* self._ws: <<>> (None) or <<heap index, sheet name>>
    stats,              \* self._mstats
    calls,              \* bulk_update calls the remote API has received
    validated,          \* history: worksheets whose header passed validation
    last,               \* history: what the last synchronizer call did
    nops                \* number of synchronizer calls made

pipeVars == <<project, context, validation_items, idx, outcomes, halted>>
syncVars == <<disk, heap, wb, ws, stats, calls, validated, last, nops>>
vars == <<project, context, validation_items, idx, outcomes, halted,
          disk, heap, wb, ws, stats, calls, validated, last, nops>>

-----------------------------------------------------------------------------
(* Bounds of the model. *)
MaxVars == 3
MaxItems == 3
MaxRows == 3
MaxOps == 3

-----------------------------------------------------------------------------
(* Helpers for Python values. *)

EmptyDict == [k \in {} |-> {}]

\* Python's None: the value of an empty cell, of dict.get on a missing key
None == "None"

\* dict.update / {**a, **b}: keys of u replace or extend those of c
Overlay(c, u) == [k \in DOMAIN c \cup DOMAIN u |-> IF k \in DOMAIN u THEN u[k] ELSE c[k]]

Range(s) == {s[i] : i \in 1..Len(s)}

RECURSIVE SeqsUpTo(_, _)
SeqsUpTo(S, n) ==
    IF n = 0 THEN {<<>>}
    ELSE LET shorter == SeqsUpTo(S, n - 1)
         IN shorter \cup {Append(s, e) : s \in {t \in shorter : Len(t) = n - 1}, e \in S}

ValidationItem(level, message, arg) ==
    [level |-> level, message |-> message, arg |-> arg]

ValidationResult(items, must_exit, ctx) ==
    [items |-> items, must_exit |-> must_exit, context |-> ctx]

-----------------------------------------------------------------------------
(* validations.py: the checks.  Each is a function of the project          *)
(* directory and the context, returning a ValidationResult.                *)

\* what load_project_toml_file returns for a manifest that cannot be used
load_project_toml_file(proj) ==
    IF proj.toml = "missing"
    THEN ValidationResult(
             <<ValidationItem("WARNING", "pyproject.toml is not present", <<>>)>>,
             TRUE, EmptyDict)
    ELSE IF proj.toml = "invalid"
    THEN ValidationResult(
             <<ValidationItem("ERROR", "pyproject.toml is not valid", <<>>)>>,
             TRUE, EmptyDict)
    ELSE proj.data

\* isinstance(data, ValidationResult)
IsValidationResult(data) == "must_exit" \in DOMAIN data

possible_extensions == <<"extension", "webapp", "anvil">>

\* the (deprecated_cls, cls_name) pairs of the inner for loop
deprecated_responses ==
    << <<"CustomEventResponse", "InteractiveResponse">>,
       <<"ProcessingResponse", "BackgroundResponse">>,
       <<"ProductActionResponse", "InteractiveResponse">>,
       <<"ValidationResponse", "InteractiveResponse">> >>

\* the WARNING items for the deprecated response classes a module defines
RECURSIVE deprecated_warnings(_, _)
deprecated_warnings(module, i) ==
    IF i > Len(deprecated_responses) THEN <<>>
    ELSE (IF deprecated_responses[i][1] \in module.defined_classes
          THEN <<ValidationItem("WARNING", "The response class has been deprecated",
                                <<deprecated_responses[i][1], deprecated_responses[i][2]>>)>>
          ELSE <<>>)
         \o deprecated_warnings(module, i + 1)

\* mutant of load_extensions: the ImportError handler without its return
RECURSIVE load_extensions_no_return(_, _, _, _)
load_extensions_no_return(extension_dict, i, messages, extensions) ==
    IF i > Len(possible_extensions)
    THEN [failed |-> FALSE, messages |-> messages, extensions |-> extensions]
    ELSE LET extension_type == possible_extensions[i] IN
         IF extension_type \notin DOMAIN extension_dict
         THEN load_extensions_no_return(extension_dict, i + 1, messages, extensions)
         ELSE LET module == extension_dict[extension_type] IN
              IF ~module.importable
              THEN load_extensions_no_return(extension_dict, i + 1,
                       Append(messages,
                           ValidationItem("ERROR", "The extension class cannot be loaded",
                                          <<extension_type>>)),
                       extensions)
              ELSE load_extensions_no_return(extension_dict, i + 1,
                       messages \o deprecated_warnings(module, 1),
                       Overlay(extensions, extension_type :> module.class))

\* the for loop over possible_extensions: import each declared module,
\* return at the first ImportError
RECURSIVE load_extensions(_, _, _, _)
load_extensions(extension_dict, i, messages, extensions) ==
    IF i > Len(possible_extensions)
    THEN [failed |-> FALSE, messages |-> messages, extensions |-> extensions]
    ELSE LET extension_type == possible_extensions[i] IN
         IF extension_type \notin DOMAIN extension_dict
         THEN load_extensions(extension_dict, i + 1, messages, extensions)
         ELSE LET module == extension_dict[extension_type] IN
              IF ~module.importable
              THEN [failed |-> TRUE,
                    messages |-> Append(messages,
                        ValidationItem("ERROR", "The extension class cannot be loaded",
                                       <<extension_type>>)),
                    extensions |-> extensions]
              ELSE load_extensions(extension_dict, i + 1,
                                   messages \o deprecated_warnings(module, 1),
                                   Overlay(extensions, extension_type :> module.class))

\* mutant of dependency_messages: the elif written as a second if
dependency_messages_if(dependencies) ==
    (IF "connect-extension-runner" \in dependencies
     THEN <<ValidationItem("WARNING",
                "Extensions must depend on connect-eaas-core not connect-extension-runner", <<>>)>>
     ELSE <<>>)
    \o
    (IF "connect-eaas-core" \notin dependencies
     THEN <<ValidationItem("ERROR", "No dependency on connect-eaas-core has been found", <<>>)>>
     ELSE <<>>)

\* the dependency branch: WARNING for the runner, else ERROR without core
dependency_messages(dependencies) ==
    IF "connect-extension-runner" \in dependencies
    THEN <<ValidationItem("WARNING",
               "Extensions must depend on connect-eaas-core not connect-extension-runner", <<>>)>>
    ELSE IF "connect-eaas-core" \notin dependencies
    THEN <<ValidationItem("ERROR", "No dependency on connect-eaas-core has been found", <<>>)>>
    ELSE <<>>

validate_pyproject_toml(proj, ctx) ==
    LET data == load_project_toml_file(proj) IN
    IF IsValidationResult(data) THEN data
    ELSE
    LET messages == dependency_messages(data.dependencies)
        plugins == data.plugins
    IN
    \* .get('plugins', {}).get('connect.eaas.ext') is None unless declared
    IF "connect.eaas.ext" \notin DOMAIN plugins
    THEN ValidationResult(
             Append(messages,
                    ValidationItem("ERROR", "No extension declaration has been found", <<>>)),
             TRUE, EmptyDict)
    ELSE
    LET loaded == load_extensions(plugins["connect.eaas.ext"], 1, messages, EmptyDict) IN
    IF loaded.failed
    THEN ValidationResult(loaded.messages, TRUE, EmptyDict)
    ELSE IF loaded.extensions = EmptyDict
    THEN ValidationResult(
             Append(loaded.messages,
                    ValidationItem("ERROR", "Invalid extension declaration", <<>>)),
             TRUE, EmptyDict)
    ELSE ValidationResult(loaded.messages, FALSE,
                          [extension_classes |-> loaded.extensions])

\* the keys of extension_classes in dict (insertion) order
items(extension_classes) ==
    SelectSeq(possible_extensions, LAMBDA t : t \in DOMAIN extension_classes)

\* the negated issubclass test of the for loop
not_subclass(extension_type, extension_class) ==
    \/ /\ extension_type = "extension"
       /\ extension_class.bases \cap {"Extension", "EventsExtension"} = {}
    \/ /\ extension_type = "webapp"
       /\ "WebAppExtension" \notin extension_class.bases
    \/ /\ extension_type = "anvil"
       /\ "AnvilExtension" \notin extension_class.bases

\* the WARNING items for the deprecated sections of extension.json
RECURSIVE descriptor_warnings(_, _)
descriptor_warnings(descriptor, sections) ==
    IF sections = <<>> THEN <<>>
    ELSE (IF Head(sections) \in DOMAIN descriptor
          THEN <<ValidationItem("WARNING", "must be declared using the decorator",
                                <<Head(sections)>>)>>
          ELSE <<>>)
         \o descriptor_warnings(descriptor, Tail(sections))

validate_extension_class(proj, ctx) ==
    LET classes == ctx.extension_classes
        order == items(classes)
        bad == {i \in 1..Len(order) : not_subclass(order[i], classes[order[i]])}
    IN
    IF bad # {}
    THEN LET first == CHOOSE i \in bad : \A j \in bad : i <= j IN
         ValidationResult(
             <<ValidationItem("ERROR", "The extension class is not a subclass",
                              <<classes[order[first]].name>>)>>,
             TRUE, EmptyDict)
    ELSE
    \* ext_class is the first class of the dict
    LET ext_class == classes[order[1]] IN
    IF ~ext_class.descriptor_found
    THEN ValidationResult(
             <<ValidationItem("ERROR", "The extension descriptor cannot be loaded", <<>>)>>,
             TRUE, EmptyDict)
    ELSE ValidationResult(
             descriptor_warnings(ext_class.descriptor,
                                 <<"variables", "capabilities", "schedulables">>),
             FALSE, [descriptor |-> ext_class.descriptor])

\* get_event_definitions(config): the platform's event types with the
\* object statuses each one allows (empty: the event takes no statuses)
event_definitions ==
    [asset_purchase_request_processing |-> {"pending", "approved", "failed"},
     product_action_execution |-> {}]

\* the body of the for loop over events: the items one event adds
event_messages(event) ==
    IF event.event_type \notin DOMAIN event_definitions
    THEN <<ValidationItem("ERROR", "The event type is not valid", <<event.event_type>>)>>
    ELSE
    LET object_statuses == event_definitions[event.event_type]
        invalid_statuses == IF object_statuses # {}
                            THEN event.statuses \ object_statuses
                            ELSE event.statuses
    IN (IF invalid_statuses # {}
        THEN <<ValidationItem("ERROR", "The statuses are invalid for the event",
                              <<event.event_type>>)>>
        ELSE <<>>)
       \o
       (IF event.parameters # 2
        THEN <<ValidationItem("ERROR", "The handler for the event has an invalid signature",
                              <<event.method>>)>>
        ELSE <<>>)

RECURSIVE events_messages(_)
events_messages(events) ==
    IF events = <<>> THEN <<>>
    ELSE event_messages(Head(events)) \o events_messages(Tail(events))

\* mutant of validate_events: the returned context keeps only the class
\* the check looked at
validate_events_narrowed(proj, ctx) ==
    IF "extension" \notin DOMAIN ctx.extension_classes
    THEN ValidationResult(<<>>, FALSE, ctx)
    ELSE ValidationResult(events_messages(ctx.extension_classes["extension"].events),
                          FALSE,
                          [ctx EXCEPT !.extension_classes =
                              "extension" :> ctx.extension_classes["extension"]])

validate_events(proj, ctx) ==
    IF "extension" \notin DOMAIN ctx.extension_classes
    THEN ValidationResult(<<>>, FALSE, ctx)
    ELSE ValidationResult(events_messages(ctx.extension_classes["extension"].events),
                          FALSE, ctx)

RECURSIVE schedulables_messages(_)
schedulables_messages(schedulables) ==
    IF schedulables = <<>> THEN <<>>
    ELSE (IF Head(schedulables).parameters # 2
          THEN <<ValidationItem("ERROR", "The schedulable method has an invalid signature",
                                <<Head(schedulables).method>>)>>
          ELSE <<>>)
         \o schedulables_messages(Tail(schedulables))

validate_schedulables(proj, ctx) ==
    IF "extension" \notin DOMAIN ctx.extension_classes
    THEN ValidationResult(<<>>, FALSE, ctx)
    ELSE ValidationResult(
             schedulables_messages(ctx.extension_classes["extension"].schedulables),
             FALSE, ctx)

\* A variable name is a sequence of one-character strings.
Letters == {"a", "b", "x"}
Digits == {"1"}

\* variable_name_regex.match: ^[A-Za-z](?:[A-Za-z0-9_\-.]+)*$ ; Python's $
\* also matches just before a trailing newline
name_matches(name) ==
    LET n == Len(name)
        core == IF n > 0 /\ name[n] = "\n" THEN SubSeq(name, 1, n - 1) ELSE name
    IN /\ Len(core) >= 1
       /\ core[1] \in Letters
       /\ \A i \in 2..Len(core) : core[i] \in Letters \cup Digits \cup {"_", "-", "."}

\* the items the checks after names.append add for one named variable
variable_messages(variable) ==
    (IF ~name_matches(variable.name)
     THEN <<ValidationItem("ERROR", "Invalid variable name", variable.name)>>
     ELSE <<>>)
    \o
    (IF "initial_value" \in DOMAIN variable /\ variable.initial_value # "str"
     THEN <<ValidationItem("ERROR", "Invalid initial_value attribute", variable.name)>>
     ELSE <<>>)
    \o
    (IF "secure" \in DOMAIN variable /\ variable.secure # "bool"
     THEN <<ValidationItem("ERROR", "Invalid secure attribute", variable.name)>>
     ELSE <<>>)

\* the test that guards the duplicate-name item
is_duplicate(variable, names) == variable.name \in Range(names)

\* mutant of check_variables: names.append before the duplicate test
RECURSIVE check_variables_append_first(_, _)
check_variables_append_first(variables, names) ==
    IF variables = <<>> THEN <<>>
    ELSE
    LET variable == Head(variables) IN
    IF "name" \notin DOMAIN variable
    THEN <<ValidationItem("ERROR", "Invalid variable declaration: the name attribute is mandatory",
                          <<>>)>>
         \o check_variables_append_first(Tail(variables), names)
    ELSE (IF is_duplicate(variable, Append(names, variable.name))
          THEN <<ValidationItem("ERROR", "Duplicate variable name", variable.name)>>
          ELSE <<>>)
         \o variable_messages(variable)
         \o check_variables_append_first(Tail(variables), Append(names, variable.name))

\* the for loop over the variables of one class; names is the list of the
\* names seen so far
RECURSIVE check_variables(_, _)
check_variables(variables, names) ==
    IF variables = <<>> THEN <<>>
    ELSE
    LET variable == Head(variables) IN
    IF "name" \notin DOMAIN variable
    THEN <<ValidationItem("ERROR", "Invalid variable declaration: the name attribute is mandatory",
                          <<>>)>>
         \o check_variables(Tail(variables), names)
    ELSE (IF is_duplicate(variable, names)
          THEN <<ValidationItem("ERROR", "Duplicate variable name", variable.name)>>
          ELSE <<>>)
         \o variable_messages(variable)
         \o check_variables(Tail(variables), Append(names, variable.name))

\* the outer for loop: every class of extension_classes, names starting empty
RECURSIVE classes_variables(_, _)
classes_variables(classes, order) ==
    IF order = <<>> THEN <<>>
    ELSE check_variables(classes[Head(order)].variables, <<>>)
         \o classes_variables(classes, Tail(order))

validate_variables(proj, ctx) ==
    ValidationResult(
        classes_variables(ctx.extension_classes, items(ctx.extension_classes)),
        FALSE, ctx)

\* The ui tree of extension.json is kept as a table: ui[i] is one item,
\* with the key "url" when the item has one and "parent" the index of the
\* item whose 'children' list holds it (0: a value of the top-level ui
\* dict).  Lists keep the order of the table.
top_items(ui) == SelectSeq([i \in 1..Len(ui) |-> i], LAMBDA i : ui[i].parent = 0)

\* mutant of children: the nested items are never queued
children_none(ui, item) == <<>>

\* ui_item.get('children', [])
children(ui, item) == SelectSeq([i \in 1..Len(ui) |-> i], LAMBDA i : ui[i].parent = item)

\* url.strip('/'): a url is a sequence of segments and "/" separators
RECURSIVE strip(_)
strip(url) ==
    IF url = <<>> THEN <<>>
    ELSE IF Head(url) = "/" THEN strip(Tail(url))
    ELSE IF url[Len(url)] = "/" THEN strip(SubSeq(url, 1, Len(url) - 1))
    ELSE url

\* os.path.exists(os.path.join(dirname(extension_class_file), url.strip('/')));
\* the empty path is the directory itself
path_exists(extension_class, url) ==
    strip(url) = <<>> \/ strip(url) \in extension_class.files

\* ui_item.get("label")
label(ui_item) == IF "label" \in DOMAIN ui_item THEN ui_item.label ELSE None

\* ui_items.pop(): the item the while loop takes next, and what is left
pop(ui_items) ==
    [item |-> ui_items[Len(ui_items)], rest |-> SubSeq(ui_items, 1, Len(ui_items) - 1)]

\* mutant of traverse: the loop is left at the first missing file
RECURSIVE traverse_first_missing(_, _, _, _)
traverse_first_missing(extension_class, ui, ui_items, missed_files) ==
    IF ui_items = <<>> \/ missed_files # <<>>
    THEN [no_url |-> FALSE, missed_files |-> missed_files, item |-> 0]
    ELSE
    LET popped == pop(ui_items)
        ui_item == ui[popped.item]
    IN
    IF "url" \notin DOMAIN ui_item
    THEN [no_url |-> TRUE, missed_files |-> missed_files, item |-> popped.item]
    ELSE traverse_first_missing(extension_class, ui,
                                popped.rest \o children(ui, popped.item),
                                IF path_exists(extension_class, ui_item.url)
                                THEN missed_files
                                ELSE Append(missed_files, ui_item.url))

\* the while loop over the worklist ui_items
RECURSIVE traverse(_, _, _, _)
traverse(extension_class, ui, ui_items, missed_files) ==
    IF ui_items = <<>>
    THEN [no_url |-> FALSE, missed_files |-> missed_files, item |-> 0]
    ELSE
    LET popped == pop(ui_items)
        ui_item == ui[popped.item]
    IN
    IF "url" \notin DOMAIN ui_item
    THEN [no_url |-> TRUE, missed_files |-> missed_files, item |-> popped.item]
    ELSE traverse(extension_class, ui,
                  popped.rest \o children(ui, popped.item),
                  IF path_exists(extension_class, ui_item.url)
                  THEN missed_files
                  ELSE Append(missed_files, ui_item.url))

\* what the traversal returns: the url ERROR of the item that stopped the
\* loop, the ERROR listing the missed files, or the context unchanged
ui_result(ui, walked, ctx) ==
    IF walked.no_url
    THEN ValidationResult(
             <<ValidationItem("ERROR", "incorrect ui item, url is not presented",
                              <<label(ui[walked.item])>>)>>,
             TRUE, EmptyDict)
    ELSE IF walked.missed_files # <<>>
    THEN ValidationResult(
             <<ValidationItem("ERROR", "missing static files", walked.missed_files)>>,
             TRUE, EmptyDict)
    ELSE ValidationResult(<<>>, FALSE, ctx)

validate_webapp_extension(proj, ctx) ==
    IF "webapp" \notin DOMAIN ctx.extension_classes
    THEN ValidationResult(<<>>, FALSE, ctx)
    ELSE
    LET extension_class == ctx.extension_classes["webapp"] IN
    IF ~extension_class.wrapped
    THEN ValidationResult(
             <<ValidationItem("ERROR", "The Web app extension class must be wrapped", <<>>)>>,
             TRUE, EmptyDict)
    ELSE IF ~extension_class.has_router_function
    THEN ValidationResult(
             <<ValidationItem("ERROR", "The Web app extension class must contain a router function",
                              <<>>)>>,
             TRUE, EmptyDict)
    ELSE IF "ui" \notin DOMAIN ctx.descriptor
    THEN ValidationResult(
             <<ValidationItem("ERROR", "The extension descriptor must contain ui", <<>>)>>,
             TRUE, EmptyDict)
    ELSE
    LET ui == ctx.descriptor.ui IN
    ui_result(ui, traverse(extension_class, ui, top_items(ui), <<>>), ctx)

validate_anvil_extension(proj, ctx) ==
    IF "anvil" \notin DOMAIN ctx.extension_classes
    THEN ValidationResult(<<>>, FALSE, ctx)
    ELSE ValidationResult(<<>>, FALSE, ctx)

\* cloudblueconnect/connect-extension-runner:{get_pypi_runner_version()}
runner_image == "cloudblueconnect/connect-extension-runner:latest"

RECURSIVE services_messages(_)
services_messages(services) ==
    IF services = <<>> THEN <<>>
    ELSE (IF Head(services).image # runner_image
          THEN <<ValidationItem("ERROR", "Invalid image for service", <<Head(services).name>>)>>
          ELSE <<>>)
         \o services_messages(Tail(services))

validate_docker_compose_yml(proj, ctx) ==
    IF proj.compose.file = "missing"
    THEN ValidationResult(
             <<ValidationItem("WARNING", "the file docker-compose.yml is not present", <<>>)>>,
             FALSE, EmptyDict)
    ELSE IF proj.compose.file = "invalid"
    THEN ValidationResult(
             <<ValidationItem("ERROR", "The file docker-compose.yml is not valid", <<>>)>>,
             FALSE, EmptyDict)
    ELSE ValidationResult(services_messages(proj.compose.services), FALSE, EmptyDict)

\* mutant of validators: validate_extension_class placed after
\* validate_webapp_extension
validators_reordered ==
    <<"validate_pyproject_toml",
      "validate_docker_compose_yml",
      "validate_events",
      "validate_variables",
      "validate_schedulables",
      "validate_webapp_extension",
      "validate_extension_class",
      "validate_anvil_extension">>

validators ==
    <<"validate_pyproject_toml",
      "validate_docker_compose_yml",
      "validate_extension_class",
      "validate_events",
      "validate_variables",
      "validate_schedulables",
      "validate_webapp_extension",
      "validate_anvil_extension">>

\* calling the function a name of validators stands for
call(validator, proj, ctx) ==
    CASE validator = "validate_pyproject_toml" -> validate_pyproject_toml(proj, ctx)
      [] validator = "validate_docker_compose_yml" -> validate_docker_compose_yml(proj, ctx)
      [] validator = "validate_extension_class" -> validate_extension_class(proj, ctx)
      [] validator = "validate_events" -> validate_events(proj, ctx)
      [] validator = "validate_variables" -> validate_variables(proj, ctx)
      [] validator = "validate_schedulables" -> validate_schedulables(proj, ctx)
      [] validator = "validate_webapp_extension" -> validate_webapp_extension(proj, ctx)
      [] validator = "validate_anvil_extension" -> validate_anvil_extension(proj, ctx)

-----------------------------------------------------------------------------
(* The driver: one iteration of its loop over validators.  It calls the    *)
(* next check, extends the diagnostics, leaves the loop at a stop flag and *)
(* otherwise overlays the result's context update on the context.          *)

\* mutant of continues: the driver without its break
continues_always(result) == TRUE

\* whether the loop goes on after a result
continues(result) == ~result.must_exit

\* context.update(result.context)
merge(ctx, result) == Overlay(ctx, result.context)

RunValidator ==
    /\ ~halted
    /\ idx < Len(validators)
    /\ LET result == call(validators[idx + 1], project, context) IN
       /\ idx' = idx + 1
       /\ outcomes' = Append(outcomes, result)
       /\ validation_items' = validation_items \o result.items
       /\ IF continues(result)
          THEN /\ context' = merge(context, result)
               /\ halted' = (idx + 1 = Len(validators))
          ELSE /\ context' = context
               /\ halted' = TRUE
    /\ UNCHANGED project
    /\ UNCHANGED syncVars

-----------------------------------------------------------------------------
(* translation_attr_sync.py: TranslationAttributesSynchronizer.            *)
(*                                                                         *)
(* A worksheet is the sequence of its rows, row 1 first, each row the      *)
(* sequence of its cell values; a workbook maps sheet names to worksheets. *)
(* The worksheets here are five columns wide, the width an AttributeRow    *)
(* takes.  load_workbook creates a new workbook object at every call:      *)
(* heap holds them, and self._ws refers to a sheet of one of them, which   *)
(* need not be the one self._wb refers to.                                 *)

\* connect/cli/plugins/shared/constants.py
ATTRIBUTES_SHEET_COLUMNS == <<"key", "original value", "action", "value", "comment">>

column_letters == <<"A", "B", "C", "D", "E">>

\* ws.cell(row, column).value
cell_value(sheet, row, column) ==
    IF row <= Len(sheet) /\ column <= Len(sheet[row]) THEN sheet[row][column] ELSE None

\* ws.cell(row, column).coordinate
coordinate(row, column) == <<column_letters[column], row>>

\* the columns _validate_attributes_worksheet compares
checked_columns ==
    {col_idx \in 1..Len(ATTRIBUTES_SHEET_COLUMNS) :
        ATTRIBUTES_SHEET_COLUMNS[col_idx] # "original value"}

\* _validate_attributes_worksheet: the ClickException it raises, if any
RECURSIVE validate_from(_, _)
validate_from(sheet, col_idx) ==
    IF col_idx > Len(ATTRIBUTES_SHEET_COLUMNS)
    THEN [raised |-> FALSE, coordinate |-> <<>>, header |-> None, value |-> None]
    ELSE IF col_idx \notin checked_columns
    THEN validate_from(sheet, col_idx + 1)
    ELSE IF cell_value(sheet, 1, col_idx) # ATTRIBUTES_SHEET_COLUMNS[col_idx]
    THEN [raised |-> TRUE, coordinate |-> coordinate(1, col_idx),
          header |-> ATTRIBUTES_SHEET_COLUMNS[col_idx],
          value |-> cell_value(sheet, 1, col_idx)]
    ELSE validate_from(sheet, col_idx + 1)

\* mutant of _validate_attributes_worksheet: the comparison resumes after
\* the exempt column only
validate_after_exempt(sheet) == validate_from(sheet, 3)

_validate_attributes_worksheet(sheet) == validate_from(sheet, 1)

NoError == [raised |-> FALSE, coordinate |-> <<>>, header |-> None, value |-> None]

NoSnapshot == [sheet |-> <<>>, stats |-> [skipped |-> 0, updated |-> 0, errors |-> <<>>],
               ncalls |-> 0]

\* what a call left in last
Done(op, outcome, error, before) ==
    [op |-> op, outcome |-> outcome, error |-> error, before |-> before]

\* open(input_file, worksheet)
Open(input_file, worksheet) ==
    /\ nops < MaxOps
    /\ nops' = nops + 1
    /\ UNCHANGED <<disk, stats, calls>>
    /\ IF disk[input_file].format = "unsupported"
       THEN \* load_workbook raises InvalidFileException
            /\ last' = Done("open", "InvalidFileException", NoError, NoSnapshot)
            /\ UNCHANGED <<heap, wb, ws, validated>>
       ELSE IF disk[input_file].format = "corrupt"
       THEN \* load_workbook raises BadZipFile
            /\ last' = Done("open", "BadZipFile", NoError, NoSnapshot)
            /\ UNCHANGED <<heap, wb, ws, validated>>
       ELSE /\ heap' = Append(heap, disk[input_file].workbook)
            /\ wb' = Len(heap) + 1
            /\ IF worksheet \notin DOMAIN disk[input_file].workbook
               THEN /\ last' = Done("open", "SheetNotFoundError", NoError, NoSnapshot)
                    /\ UNCHANGED <<ws, validated>>
               ELSE LET error == _validate_attributes_worksheet(
                                     disk[input_file].workbook[worksheet])
                    IN /\ ws' = <<Len(heap) + 1, worksheet>>
                       /\ IF error.raised
                          THEN /\ last' = Done("open", "ClickException", error, NoSnapshot)
                               /\ UNCHANGED validated
                          ELSE /\ last' = Done("open", "ok", NoError, NoSnapshot)
                               /\ validated' = validated \cup {<<Len(heap) + 1, worksheet>>}
    /\ UNCHANGED pipeVars

\* header.replace(' ', '_').lower(): the AttributeRow field a column header
\* names
field_name(header) ==
    CASE header = "original value" -> "original_value"
      [] OTHER -> header

\* the position of an AttributeRow field in the row tuple
field_index(field) ==
    CHOOSE c \in 1..Len(ATTRIBUTES_SHEET_COLUMNS) :
        field_name(ATTRIBUTES_SHEET_COLUMNS[c]) = field

\* enumerate(ws.iter_rows(min_row=2, values_only=True), 2)
first_data_row == 2

\* mutant of _collect_attributes_to_update: enumerate starting at 1
collect_from_one(sheet) ==
    SelectSeq([i \in 1..(Len(sheet) - 1) |-> i],
              LAMBDA row_idx : sheet[row_idx + 1][field_index("action")] = "update")

\* _collect_attributes_to_update: the row indices flagged 'update', in row
\* order (the keys of attributes); every other data row counts as skipped
_collect_attributes_to_update(sheet) ==
    SelectSeq([i \in 1..(Len(sheet) - (first_data_row - 1)) |-> i + (first_data_row - 1)],
              LAMBDA row_idx : sheet[row_idx][field_index("action")] = "update")

\* the number of rows _collect_attributes_to_update passes to skipped()
skipped_rows(sheet) ==
    Cardinality({row_idx \in first_data_row..Len(sheet) :
                    sheet[row_idx][field_index("action")] # "update"})

\* list(attributes.values()): key, value and comment of the collected rows
attribute_values(sheet, attributes) ==
    [i \in 1..Len(attributes) |->
        [key |-> sheet[attributes[i]][field_index("key")],
         value |-> sheet[attributes[i]][field_index("value")],
         comment |-> sheet[attributes[i]][field_index("comment")]]]

\* the rows _update_attributes passes to stats.error
error_rows(attributes) == 1..Len(attributes)

\* _update_attributes_sheet_row on every collected row: ws.cell(row_idx, 3, value='-')
marked(sheet, attributes) ==
    [row_idx \in 1..Len(sheet) |->
        IF row_idx \in Range(attributes)
        THEN [sheet[row_idx] EXCEPT ![3] = "-"]
        ELSE sheet[row_idx]]

\* sync(translation_id); client_error: the remote call raises ClientError
Sync(translation_id, client_error) ==
    /\ nops < MaxOps
    /\ nops' = nops + 1
    /\ UNCHANGED <<disk, wb, ws, validated>>
    /\ IF ws = <<>>
       THEN \* None has no iter_rows
            /\ last' = Done("sync", "AttributeError", NoError, NoSnapshot)
            /\ UNCHANGED <<heap, stats, calls>>
       ELSE LET sheet == heap[ws[1]][ws[2]]
                attributes == _collect_attributes_to_update(sheet)
                collected == [stats EXCEPT !.skipped = @ + skipped_rows(sheet)]
                before == [sheet |-> sheet, stats |-> stats, ncalls |-> Len(calls)]
            IN IF attributes = <<>>
               THEN /\ stats' = collected
                    /\ last' = Done("sync", "ok", NoError, before)
                    /\ UNCHANGED <<heap, calls>>
               ELSE /\ calls' = Append(calls,
                                   [translation_id |-> translation_id,
                                    payload |-> attribute_values(sheet, attributes),
                                    raised |-> client_error])
                    /\ IF client_error
                       THEN /\ stats' = [collected EXCEPT !.errors =
                                            Append(@, [message |-> "Error while updating attributes",
                                                       rows |-> error_rows(attributes)])]
                            /\ last' = Done("sync", "error recorded", NoError, before)
                            /\ UNCHANGED heap
                       ELSE /\ stats' = [collected EXCEPT !.updated = @ + Len(attributes)]
                            /\ heap' = [heap EXCEPT ![ws[1]][ws[2]] = marked(sheet, attributes)]
                            /\ last' = Done("sync", "ok", NoError, before)
    /\ UNCHANGED pipeVars

\* save(output_file)
Save(output_file) ==
    /\ nops < MaxOps
    /\ nops' = nops + 1
    /\ UNCHANGED <<heap, wb, ws, stats, calls, validated>>
    /\ IF wb = 0
       THEN \* None has no save
            /\ last' = Done("save", "AttributeError", NoError, NoSnapshot)
            /\ UNCHANGED disk
       ELSE /\ disk' = Overlay(disk, output_file :> [format |-> "xlsx", workbook |-> heap[wb]])
            /\ last' = Done("save", "ok", NoError, NoSnapshot)
    /\ UNCHANGED pipeVars

-----------------------------------------------------------------------------
(* The project directories the pipeline is run on.                         *)

family(kind) ==
    CASE kind = "extension" -> "EventsExtension"
      [] kind = "webapp" -> "WebAppExtension"
      [] kind = "anvil" -> "AnvilExtension"

Urls == {<<"/", "a">>, <<"a", "/">>, <<"/", "b">>}

GoodUi == << [parent |-> 0, url |-> <<"/", "a">>] >>

GoodDescriptor == [name |-> "ext", ui |-> GoodUi]

GoodEvent ==
    [method |-> "handle", event_type |-> "asset_purchase_request_processing",
     statuses |-> {"pending"}, parameters |-> 2]

GoodSchedulable == [method |-> "run", parameters |-> 2]

GoodClass(kind) ==
    [name |-> kind, bases |-> {family(kind)},
     descriptor_found |-> TRUE, descriptor |-> GoodDescriptor,
     events |-> <<GoodEvent>>, schedulables |-> <<GoodSchedulable>>,
     variables |-> << [name |-> <<"a">>] >>,
     wrapped |-> TRUE, has_router_function |-> TRUE,
     files |-> {<<"a">>}]

\* classes that each depart from GoodClass in what one check looks at
ClassVariants(kind) ==
    LET c == GoodClass(kind) IN
    {c,
     [c EXCEPT !.bases = {}],
     [c EXCEPT !.descriptor_found = FALSE],
     [c EXCEPT !.descriptor = [name |-> "ext", variables |-> {}, schedulables |-> {}]],
     [c EXCEPT !.descriptor = [name |-> "ext",
                               ui |-> << [parent |-> 0, url |-> <<"/", "a">>],
                                         [parent |-> 1, url |-> <<"/", "b">>],
                                         [parent |-> 1] >>]]}
    \cup
    (IF kind = "extension"
     THEN {[c EXCEPT !.events = << [GoodEvent EXCEPT !.event_type = "unknown"],
                                   [GoodEvent EXCEPT !.statuses = {"pending", "draft"},
                                                     !.parameters = 3] >>],
           [c EXCEPT !.schedulables = << [GoodSchedulable EXCEPT !.parameters = 1] >>],
           [c EXCEPT !.variables = << [name |-> <<"a">>], [secure |-> "str"],
                                      [name |-> <<"a">>, initial_value |-> "int"] >>]}
     ELSE {})
    \cup
    (IF kind = "webapp"
     THEN {[c EXCEPT !.wrapped = FALSE],
           [c EXCEPT !.has_router_function = FALSE],
           [c EXCEPT !.files = {}]}
     ELSE {})

\* the modules an entry of the plugins table may name
Modules(kind) ==
    {[importable |-> TRUE, defined_classes |-> {}, class |-> c] : c \in ClassVariants(kind)}
    \cup
    {[importable |-> FALSE, defined_classes |-> {}, class |-> GoodClass(kind)],
     [importable |-> TRUE, defined_classes |-> {"ProcessingResponse", "ValidationResponse"},
      class |-> GoodClass(kind)]}

\* None when the kind is not declared
Declared(kind, S) == {EmptyDict} \cup {kind :> m : m \in S}

\* the [tool.poetry.plugins."connect.eaas.ext"] tables over the given modules
ExtensionDicts(E, W, A) ==
    {Overlay(Overlay(e, w), a) : e \in Declared("extension", E),
                                  w \in Declared("webapp", W),
                                  a \in Declared("anvil", A)}
    \cup {"other" :> [importable |-> TRUE, defined_classes |-> {},
                      class |-> GoodClass("extension")]}

Dependencies == SUBSET {"connect-extension-runner", "connect-eaas-core"}

ComposeFiles ==
    {[file |-> "missing", services |-> <<>>],
     [file |-> "invalid", services |-> <<>>],
     [file |-> "ok", services |-> << [name |-> "dev", image |-> runner_image],
                                     [name |-> "test", image |-> "python:3.10"] >>]}

GoodCompose ==
    [file |-> "ok", services |-> << [name |-> "dev", image |-> runner_image] >>]

\* a project whose manifest is readable
ProjectWith(dependencies, plugins, compose) ==
    [toml |-> "ok",
     data |-> [dependencies |-> dependencies, plugins |-> plugins],
     compose |-> compose]

Projects ==
    {[toml |-> t, data |-> [dependencies |-> {}, plugins |-> EmptyDict],
      compose |-> GoodCompose] : t \in {"missing", "invalid"}}
    \cup
    {ProjectWith(d, EmptyDict, c) : d \in Dependencies, c \in ComposeFiles}
    \cup
    {ProjectWith(d, "connect.eaas.ext" :> x, c) :
        d \in Dependencies, c \in ComposeFiles,
        x \in ExtensionDicts(Modules("extension"), Modules("webapp"),
                             {m \in Modules("anvil") : m.class.descriptor = GoodDescriptor})}

-----------------------------------------------------------------------------
(* Specifications. *)

\* the synchronizer as __init__ leaves it, beside the files d
SyncInit(d) ==
    /\ disk = d
    /\ heap = <<>>
    /\ wb = 0
    /\ ws = <<>>
    /\ stats = [skipped |-> 0, updated |-> 0, errors |-> <<>>]
    /\ calls = <<>>
    /\ validated = {}
    /\ last = Done("init", "ok", NoError, NoSnapshot)
    /\ nops = 0

\* the driver before its loop, on project p
PipelineInit(p) ==
    /\ project = p
    /\ context = EmptyDict
    /\ validation_items = <<>>
    /\ idx = 0
    /\ outcomes = <<>>
    /\ halted = FALSE

Init ==
    /\ \E p \in Projects : PipelineInit(p)
    /\ SyncInit(EmptyDict)

Next == RunValidator

Spec == Init /\ [][Next]_vars

\* variable declarations: a name with the types of its optional attributes
Variables ==
    {[secure |-> "str"],
     [name |-> <<"a">>],
     [name |-> <<"a">>, initial_value |-> "int"],
     [name |-> <<"a">>, initial_value |-> "str", secure |-> "bool"],
     [name |-> <<"a">>, secure |-> "str"],
     [name |-> <<"1", "x">>],
     [name |-> <<"1", "x">>, initial_value |-> "int", secure |-> "str"],
     [name |-> <<"b", "-", "1">>]}

\* projects whose events extension declares any list of Variables, beside
\* an optional web app extension declaring the variable a once
VariablesProjects ==
    {ProjectWith({"connect-eaas-core"}, "connect.eaas.ext" :> Overlay(e, w), GoodCompose) :
        e \in {"extension" :> [importable |-> TRUE, defined_classes |-> {},
                               class |-> [GoodClass("extension") EXCEPT !.variables = v]] :
                   v \in SeqsUpTo(Variables, MaxVars)},
        w \in Declared("webapp", {[importable |-> TRUE, defined_classes |-> {},
                                   class |-> GoodClass("webapp")]})}

InitVariables ==
    /\ \E p \in VariablesProjects : PipelineInit(p)
    /\ SyncInit(EmptyDict)

SpecVariables == InitVariables /\ [][Next]_vars

\* ui tables of n items: each item below the top level or below an earlier
\* item, with or without a url
RECURSIVE UiTables(_)
UiTables(n) ==
    IF n = 0 THEN {<<>>}
    ELSE {Append(t, item) :
             t \in UiTables(n - 1),
             item \in {[parent |-> q] : q \in 0..(n - 1)}
                      \cup {[parent |-> q, url |-> u] : q \in 0..(n - 1), u \in Urls}}

\* projects of one web app extension whose descriptor holds any ui tree of
\* up to MaxItems items, with the file a present or absent
WebappProjects ==
    {ProjectWith({"connect-eaas-core"},
                 "connect.eaas.ext" :>
                     ("webapp" :> [importable |-> TRUE, defined_classes |-> {},
                                   class |-> [GoodClass("webapp") EXCEPT
                                                 !.descriptor = [name |-> "ext", ui |-> t],
                                                 !.files = f]]),
                 GoodCompose) :
        t \in UNION {UiTables(n) : n \in 0..MaxItems}, f \in {{}, {<<"a">>}}}

InitWebapp ==
    /\ \E p \in WebappProjects : PipelineInit(p)
    /\ SyncInit(EmptyDict)

SpecWebapp == InitWebapp /\ [][Next]_vars

\* the labels of ui items
Labels == {"A", "B"}

\* ui tables of n items where an item without a url may carry a label
RECURSIVE LabelledUiTables(_)
LabelledUiTables(n) ==
    IF n = 0 THEN {<<>>}
    ELSE {Append(t, item) :
             t \in LabelledUiTables(n - 1),
             item \in {[parent |-> q] : q \in 0..(n - 1)}
                      \cup {[parent |-> q, label |-> l] : q \in 0..(n - 1), l \in Labels}
                      \cup {[parent |-> q, url |-> u] :
                                q \in 0..(n - 1), u \in {<<"/", "a">>, <<"/", "b">>}}}

\* projects of one web app extension whose descriptor holds any labelled ui
\* tree of up to MaxItems items, with the file a present or absent
WorklistProjects ==
    {ProjectWith({"connect-eaas-core"},
                 "connect.eaas.ext" :>
                     ("webapp" :> [importable |-> TRUE, defined_classes |-> {},
                                   class |-> [GoodClass("webapp") EXCEPT
                                                 !.descriptor = [name |-> "ext", ui |-> t],
                                                 !.files = f]]),
                 GoodCompose) :
        t \in UNION {LabelledUiTables(n) : n \in 0..MaxItems}, f \in {{}, {<<"a">>}}}

InitWorklist ==
    /\ \E p \in WorklistProjects : PipelineInit(p)
    /\ SyncInit(EmptyDict)

SpecWorklist == InitWorklist /\ [][Next]_vars

-----------------------------------------------------------------------------
(* Properties of the validation pipeline. *)

\* C1: once a called check returns an outcome whose stop flag is true, no
\* check later in validators is executed in that run: the stopping outcome
\* is the last one and the driver has left its loop.
C1_StopEndsRun ==
    \A i \in 1..Len(outcomes) :
        outcomes[i].must_exit => (i = Len(outcomes) /\ idx = i /\ halted)

\* C1 witness: validate_extension_class stopped a run, with five checks of
\* the list not called.
C1_Witness ==
    /\ Len(outcomes) = 3
    /\ outcomes[3].must_exit
    /\ halted
    /\ Len(validators) = 8

\* the number of items of a result carrying the given message
NumItems(result, level, message) ==
    Cardinality({i \in 1..Len(result.items) :
                    /\ result.items[i].level = level
                    /\ result.items[i].message = message})

MissingDependency == "No dependency on connect-eaas-core has been found"

RunnerDependency ==
    "Extensions must depend on connect-eaas-core not connect-extension-runner"

\* validate_pyproject_toml returned, on a manifest that could be read
ManifestChecked == Len(outcomes) >= 1 /\ project.toml = "ok"

\* C6 as stated: every manifest whose dependency table lacks
\* connect-eaas-core gets exactly one ERROR about the missing dependency.
C6_Original ==
    (ManifestChecked /\ "connect-eaas-core" \notin project.data.dependencies)
        => NumItems(outcomes[1], "ERROR", MissingDependency) = 1

\* C6 amended: a manifest whose dependency table holds neither
\* connect-eaas-core nor connect-extension-runner gets exactly one ERROR
\* about the missing dependency; one that holds connect-extension-runner
\* gets no such ERROR and exactly one WARNING about the runner instead,
\* with or without connect-eaas-core.
C6_MissingDependency ==
    ManifestChecked =>
        LET deps == project.data.dependencies IN
        /\ ("connect-eaas-core" \notin deps /\ "connect-extension-runner" \notin deps)
               => /\ NumItems(outcomes[1], "ERROR", MissingDependency) = 1
                  /\ NumItems(outcomes[1], "WARNING", RunnerDependency) = 0
        /\ "connect-extension-runner" \in deps
               => /\ NumItems(outcomes[1], "ERROR", MissingDependency) = 0
                  /\ NumItems(outcomes[1], "WARNING", RunnerDependency) = 1

\* C6 witness: a manifest without either dependency was checked and the
\* pipeline went on.
C6_Witness ==
    /\ ManifestChecked
    /\ project.data.dependencies = {}
    /\ ~outcomes[1].must_exit
    /\ NumItems(outcomes[1], "ERROR", MissingDependency) = 1

\* the manifest has no [tool.poetry.plugins."connect.eaas.ext"] table
NoRegistrationTable == "connect.eaas.ext" \notin DOMAIN project.data.plugins

\* the table declares none of extension, webapp, anvil
NoKnownKind ==
    /\ ~NoRegistrationTable
    /\ DOMAIN project.data.plugins["connect.eaas.ext"] \cap Range(possible_extensions) = {}

\* a declared extension, webapp or anvil module cannot be imported
SomeImportFails ==
    /\ ~NoRegistrationTable
    /\ \E t \in DOMAIN project.data.plugins["connect.eaas.ext"] \cap Range(possible_extensions) :
           ~project.data.plugins["connect.eaas.ext"][t].importable

\* C7 as stated: every outcome of validate_pyproject_toml with stop=true
\* comes from a manifest with no extension registration (read widely: no
\* table, or a table declaring no known kind).
C7_Original ==
    (ManifestChecked /\ outcomes[1].must_exit) => (NoRegistrationTable \/ NoKnownKind)

\* C7 amended: on a manifest that could be read, validate_pyproject_toml
\* sets the stop flag exactly when the registration table is absent, the
\* table declares none of extension, webapp, anvil, or a declared class
\* cannot be imported; the dependencies never decide it.
C7_StopCauses ==
    ManifestChecked =>
        (outcomes[1].must_exit <=> (NoRegistrationTable \/ NoKnownKind \/ SomeImportFails))

\* C7 witness: a manifest with both a registration and the required
\* dependency stopped the pipeline, at an import error.
C7_Witness ==
    /\ ManifestChecked
    /\ outcomes[1].must_exit
    /\ SomeImportFails
    /\ project.data.dependencies = {"connect-eaas-core"}

\* C10: extension_classes enters the context only by the merge of
\* validate_pyproject_toml's result and descriptor only by the merge of
\* validate_extension_class's; once in the context, neither is removed or
\* changed by a later step.
C10_SetOnce ==
    [][/\ \A k \in {"extension_classes", "descriptor"} :
              k \in DOMAIN context => (k \in DOMAIN context' /\ context'[k] = context[k])
       /\ ("extension_classes" \notin DOMAIN context /\ "extension_classes" \in DOMAIN context')
              => validators[idx'] = "validate_pyproject_toml"
       /\ ("descriptor" \notin DOMAIN context /\ "descriptor" \in DOMAIN context')
              => validators[idx'] = "validate_extension_class"]_vars

\* C10 witness: all eight checks ran over a context holding both keys, with
\* an events and a web app extension registered.
C10_Witness ==
    /\ idx = Len(validators)
    /\ ~outcomes[idx].must_exit
    /\ DOMAIN context = {"extension_classes", "descriptor"}
    /\ {"extension", "webapp"} \subseteq DOMAIN context.extension_classes

\* how many entries of a variable list carry the name n
NameCount(variables, n) ==
    Cardinality({i \in 1..Len(variables) :
                    "name" \in DOMAIN variables[i] /\ variables[i].name = n})

\* how many duplicate-name ERRORs a result holds for the name n
DuplicateErrors(result, n) ==
    Cardinality({i \in 1..Len(result.items) :
                    /\ result.items[i].level = "ERROR"
                    /\ result.items[i].message = "Duplicate variable name"
                    /\ result.items[i].arg = n})

\* the names the variables of the registered classes carry
DeclaredNames ==
    UNION {{v.name : v \in {w \in Range(context.extension_classes[k].variables) :
                               "name" \in DOMAIN w}} :
           k \in DOMAIN context.extension_classes}

\* validate_variables (the fifth of validators) returned
VariablesChecked == Len(outcomes) >= 5

\* exactly two entries of class k's variable list share the name n, and no
\* other class declares n twice
TwoShare(k, n) ==
    /\ NameCount(context.extension_classes[k].variables, n) = 2
    /\ \A j \in DOMAIN context.extension_classes \ {k} :
           NameCount(context.extension_classes[j].variables, n) <= 1

\* C8: when exactly two entries of one class's variable list share a name,
\* validate_variables emits exactly one duplicate-name ERROR for that name,
\* whatever else the list holds; the check never sets the stop flag.
C8_OneDuplicateError ==
    VariablesChecked =>
        /\ ~outcomes[5].must_exit
        /\ \A k \in DOMAIN context.extension_classes : \A n \in DeclaredNames :
               TwoShare(k, n) => DuplicateErrors(outcomes[5], n) = 1

\* C8 witness: two entries share a name that also fails the name pattern,
\* beside an entry with no name and a wrongly typed attribute.
C8_Witness ==
    /\ VariablesChecked
    /\ TwoShare("extension", <<"1", "x">>)
    /\ DuplicateErrors(outcomes[5], <<"1", "x">>) = 1
    /\ NumItems(outcomes[5], "ERROR", "Invalid variable name") = 2
    /\ NumItems(outcomes[5], "ERROR", "Invalid secure attribute") >= 1
    /\ NumItems(outcomes[5], "ERROR",
                "Invalid variable declaration: the name attribute is mandatory") = 1

\* validate_webapp_extension (the seventh of validators) returned after
\* walking the ui tree of the descriptor
UiWalked ==
    /\ Len(outcomes) >= 7
    /\ "webapp" \in DOMAIN context.extension_classes
    /\ context.extension_classes["webapp"].wrapped
    /\ context.extension_classes["webapp"].has_router_function
    /\ "ui" \in DOMAIN context.descriptor

\* the urls of the ui items, at any depth, whose file does not exist
MissingUrls ==
    {context.descriptor.ui[i].url :
        i \in {j \in 1..Len(context.descriptor.ui) :
                  /\ "url" \in DOMAIN context.descriptor.ui[j]
                  /\ ~path_exists(context.extension_classes["webapp"],
                                  context.descriptor.ui[j].url)}}

\* the urls a result reports in missed_files
ReportedUrls(result) ==
    UNION {Range(result.items[i].arg) :
              i \in {j \in 1..Len(result.items) :
                        /\ result.items[j].level = "ERROR"
                        /\ result.items[j].message = "missing static files"}}

AllHaveUrl == \A i \in 1..Len(context.descriptor.ui) : "url" \in DOMAIN context.descriptor.ui[i]

\* C5 as stated: for any ui tree, every item whose file does not exist is
\* reported in missed_files of the resulting ERROR.
C5_Original == UiWalked => MissingUrls \subseteq ReportedUrls(outcomes[7])

\* C5 amended: for any ui tree in which every item has a url, the urls
\* reported in missed_files are exactly those of the items, at any depth,
\* whose file does not exist, each item once, and the check stops exactly
\* when there is one.  (An item without a url ends the walk with its own
\* ERROR and no missed_files.)
C5_AllMissingReported ==
    (UiWalked /\ AllHaveUrl) =>
        /\ ReportedUrls(outcomes[7]) = MissingUrls
        /\ outcomes[7].must_exit <=> (MissingUrls # {})
        /\ NumItems(outcomes[7], "ERROR", "missing static files")
               = (IF MissingUrls = {} THEN 0 ELSE 1)
        /\ \A i \in 1..Len(outcomes[7].items) :
               outcomes[7].items[i].message = "missing static files"
                   => Len(outcomes[7].items[i].arg)
                          = Cardinality({j \in 1..Len(context.descriptor.ui) :
                                ~path_exists(context.extension_classes["webapp"],
                                             context.descriptor.ui[j].url)})

\* C5 witness: a tree three levels deep in which a nested item and its
\* parent both miss their files, both reported.
C5_Witness ==
    /\ UiWalked
    /\ AllHaveUrl
    /\ Len(context.descriptor.ui) = 3
    /\ context.descriptor.ui[2].parent = 1
    /\ context.descriptor.ui[3].parent = 2
    /\ Cardinality(MissingUrls) >= 2
    /\ context.descriptor.ui[3].url \in MissingUrls
    /\ ReportedUrls(outcomes[7]) = MissingUrls

-----------------------------------------------------------------------------
(* The files the synchronizer is run on. *)

GoodHeader == ATTRIBUTES_SHEET_COLUMNS

\* data rows: key, original value, action, value, comment
Rows ==
    {<<k, "original", a, "translated", "note">> : k \in {"k1", "k2"}, a \in {"update", "-"}}
    \cup {<<None, None, None, None, None>>}

\* a sheet whose first column header is not the expected one
NotesSheet ==
    << <<"note", None, "action", None, None>>,
       <<"k9", "original", "update", "translated", "note">> >>

Files(sheets) ==
    {("notes.txt" :> [format |-> "unsupported", workbook |-> EmptyDict])
     @@ ("broken.xlsx" :> [format |-> "corrupt", workbook |-> EmptyDict])
     @@ ("attributes.xlsx" :> [format |-> "xlsx",
                               workbook |-> ("Attributes" :> sheet) @@ ("Notes" :> NotesSheet)]) :
        sheet \in sheets}

InputFiles == {"notes.txt", "broken.xlsx", "attributes.xlsx"}

Worksheets == {"Attributes", "Notes", "Missing"}

\* any data rows under the expected header row or under one with a wrong
\* action column
SyncSheets ==
    {<<h>> \o rows : h \in {GoodHeader, [GoodHeader EXCEPT ![3] = "Action"]},
                     rows \in SeqsUpTo(Rows, MaxRows)}

\* any header row over one data row: each cell the expected text, the text
\* of the action column, or empty
HeaderSheets ==
    {<<h, <<"k1", "original", "update", "translated", "note">> >> :
        h \in {g \in [1..Len(ATTRIBUTES_SHEET_COLUMNS) ->
                           {"action", None} \cup Range(ATTRIBUTES_SHEET_COLUMNS)] :
                   \A c \in 1..Len(ATTRIBUTES_SHEET_COLUMNS) :
                       g[c] \in {ATTRIBUTES_SHEET_COLUMNS[c], "action", None}}}

IdleProject == ProjectWith({"connect-eaas-core"}, EmptyDict, GoodCompose)

NextSync ==
    \/ \E input_file \in InputFiles, worksheet \in Worksheets : Open(input_file, worksheet)
    \/ \E client_error \in BOOLEAN : Sync("TRN-1", client_error)
    \/ Save("attributes.xlsx")

InitSync ==
    /\ \E d \in Files(SyncSheets) : SyncInit(d)
    /\ PipelineInit(IdleProject)

SpecSync == InitSync /\ [][NextSync]_vars

InitHeader ==
    /\ \E d \in Files(HeaderSheets) : SyncInit(d)
    /\ PipelineInit(IdleProject)

SpecHeader == InitHeader /\ [][NextSync]_vars

-----------------------------------------------------------------------------
(* Properties of the synchronizer. *)

\* the worksheet self._ws refers to, as it is now
CurrentSheet == heap[ws[1]][ws[2]]

\* the last call was a sync() that read the worksheet and returned
SyncRan == last.op = "sync" /\ last.outcome \in {"ok", "error recorded"}

\* the data rows flagged 'update' when the last sync() began
Flagged ==
    {r \in 2..Len(last.before.sheet) : last.before.sheet[r][3] = "update"}

\* the attributes of the rows of the set R, in row order
RECURSIVE AttributesOf(_, _, _)
AttributesOf(sheet, R, r) ==
    IF r > Len(sheet) THEN <<>>
    ELSE (IF r \in R
          THEN << [key |-> sheet[r][1], value |-> sheet[r][4], comment |-> sheet[r][5]] >>
          ELSE <<>>)
         \o AttributesOf(sheet, R, r + 1)

\* C2: a sync() that met no remote error sent exactly the rows flagged
\* 'update' in one bulk_update call (none when no row is flagged), wrote the
\* marker '-' into the action cell of exactly those rows, left every other
\* row as it was, and counted every other data row as skipped once.
C2_SyncUpdatesFlaggedRows ==
    (last.op = "sync" /\ last.outcome = "ok") =>
        LET before == last.before.sheet IN
        /\ IF Flagged = {}
           THEN Len(calls) = last.before.ncalls
           ELSE /\ Len(calls) = last.before.ncalls + 1
                /\ calls[Len(calls)].payload = AttributesOf(before, Flagged, 2)
                /\ ~calls[Len(calls)].raised
        /\ Len(CurrentSheet) = Len(before)
        /\ \A r \in 1..Len(before) :
               CurrentSheet[r] = IF r \in Flagged THEN [before[r] EXCEPT ![3] = "-"]
                                 ELSE before[r]
        /\ stats.skipped = last.before.stats.skipped + (Len(before) - 1) - Cardinality(Flagged)
        /\ stats.updated = last.before.stats.updated + Cardinality(Flagged)
        /\ stats.errors = last.before.stats.errors

\* C2 witness: of three data rows the first and the last were flagged and
\* sent, and the one between them was skipped.
C2_Witness ==
    /\ last.op = "sync"
    /\ last.outcome = "ok"
    /\ Flagged = {2, 4}
    /\ Len(last.before.sheet) = 4
    /\ Len(calls[Len(calls)].payload) = 2
    /\ CurrentSheet[2][3] = "-"
    /\ CurrentSheet[3] = last.before.sheet[3]
    /\ stats.skipped = last.before.stats.skipped + 1

\* C3 as stated: when the bulk update raised a remote error in a sync() of
\* a validated worksheet, sync() returned with exactly one new error entry
\* whose rows cover the sheet rows that were attempted, no marker written
\* and nothing counted updated.
C3_ErrorCoversAttemptedRows ==
    (last.op = "sync" /\ last.outcome = "error recorded" /\ ws \in validated) =>
        /\ Len(stats.errors) = Len(last.before.stats.errors) + 1
        /\ Flagged \subseteq stats.errors[Len(stats.errors)].rows
        /\ CurrentSheet = last.before.sheet
        /\ stats.updated = last.before.stats.updated

\* C4 as stated: whatever open() and sync() calls came before, a sync()
\* that sent rows to the remote API read them from a worksheet whose header
\* row has passed validation.
C4_SyncOnlyValidated ==
    (SyncRan /\ Len(calls) > last.before.ncalls) => ws \in validated

\* the columns of the current worksheet's header row that fail the
\* comparison with ATTRIBUTES_SHEET_COLUMNS
Mismatched ==
    {c \in 1..5 : /\ ATTRIBUTES_SHEET_COLUMNS[c] # "original value"
                  /\ cell_value(CurrentSheet, 1, c) # ATTRIBUTES_SHEET_COLUMNS[c]}

\* the last call was an open() that found its worksheet
HeaderChecked == last.op = "open" /\ last.outcome \in {"ok", "ClickException"}

\* C9: open() succeeds only if every column but 'original value' holds the
\* expected text; otherwise it raises for the lowest mismatched column,
\* naming that cell's coordinate and the expected text.
C9_HeaderFailsFast ==
    HeaderChecked =>
        /\ last.outcome = "ok" <=> Mismatched = {}
        /\ Mismatched # {} =>
               LET first == CHOOSE c \in Mismatched : \A d \in Mismatched : c <= d IN
               /\ last.error.raised
               /\ last.error.coordinate = <<column_letters[first], 1>>
               /\ last.error.header = ATTRIBUTES_SHEET_COLUMNS[first]
               /\ last.error.value = CurrentSheet[1][first]

\* C9 witness: the header row differs in its exempt second column and in
\* its fourth and fifth columns, and open() raised for D1.
C9_Witness ==
    /\ HeaderChecked
    /\ ws[2] = "Attributes"
    /\ CurrentSheet[1][2] # "original value"
    /\ Mismatched = {4, 5}
    /\ last.outcome = "ClickException"
    /\ last.error.coordinate = <<"D", 1>>

-----------------------------------------------------------------------------
(* The worklist order of the ui traversal. *)

\* deque.popleft(): the worklist taken as a FIFO queue
popleft(ui_items) == [item |-> Head(ui_items), rest |-> Tail(ui_items)]

\* the while loop of the traversal with the worklist taken as a FIFO queue
RECURSIVE traverse_queue(_, _, _, _)
traverse_queue(extension_class, ui, ui_items, missed_files) ==
    IF ui_items = <<>>
    THEN [no_url |-> FALSE, missed_files |-> missed_files, item |-> 0]
    ELSE
    LET popped == popleft(ui_items)
        ui_item == ui[popped.item]
    IN
    IF "url" \notin DOMAIN ui_item
    THEN [no_url |-> TRUE, missed_files |-> missed_files, item |-> popped.item]
    ELSE traverse_queue(extension_class, ui,
                        popped.rest \o children(ui, popped.item),
                        IF path_exists(extension_class, ui_item.url)
                        THEN missed_files
                        ELSE Append(missed_files, ui_item.url))

\* the ui tree the seventh check walked
WalkedUi == context.descriptor.ui

\* what the LIFO stack of the code returned
StackResult == outcomes[7]

\* what the same traversal returns with a FIFO queue
QueueResult ==
    ui_result(WalkedUi,
              traverse_queue(context.extension_classes["webapp"], WalkedUi,
                             top_items(WalkedUi), <<>>),
              context)

\* same stop flag, as many diagnostics, of the same level and text
SameShape(a, b) ==
    /\ a.must_exit = b.must_exit
    /\ Len(a.items) = Len(b.items)
    /\ \A i \in 1..Len(a.items) :
           /\ a.items[i].level = b.items[i].level
           /\ a.items[i].message = b.items[i].message

\* the values a diagnostic reports, as a set
Reported(item) == Range(item.arg)

\* the labels of the items without a url
UrllessLabels == {label(WalkedUi[i]) : i \in {j \in 1..Len(WalkedUi) : "url" \notin DOMAIN WalkedUi[j]}}

\* C11 as stated: for every ui tree, items without a url included, the stack
\* and the queue give the same stop flag and the same diagnostics, the
\* reported values compared as sets.
C11_Original ==
    UiWalked =>
        /\ SameShape(StackResult, QueueResult)
        /\ \A i \in 1..Len(StackResult.items) :
               Reported(StackResult.items[i]) = Reported(QueueResult.items[i])

\* C11: for every ui tree the stack and the queue give the same stop flag
\* and diagnostics of the same level and text, and the same set of missing
\* files; the item named by the url ERROR is the same when the items
\* without a url do not differ in their label.
C11_OrderIndependent ==
    UiWalked =>
        /\ SameShape(StackResult, QueueResult)
        /\ \A i \in 1..Len(StackResult.items) :
               \/ /\ StackResult.items[i].message = "incorrect ui item, url is not presented"
                  /\ Cardinality(UrllessLabels) > 1
               \/ Reported(StackResult.items[i]) = Reported(QueueResult.items[i])

\* the two orders met the missing files in a different order and report the
\* same set of them
C11_Witness ==
    /\ UiWalked
    /\ SameShape(StackResult, QueueResult)
    /\ Len(StackResult.items) = 1
    /\ StackResult.items[1].message = "missing static files"
    /\ StackResult.items[1].arg # QueueResult.items[1].arg
    /\ Reported(StackResult.items[1]) = Reported(QueueResult.items[1])

-----------------------------------------------------------------------------
(* The context keys the checks read. *)

\* a check is still to be called in this run
Pending == ~halted /\ idx < Len(validators)

\* the check the driver calls next
NextCheck == validators[idx + 1]

\* the checks that read context['extension_classes']
RegistryReaders ==
    {"validate_extension_class", "validate_events", "validate_variables",
     "validate_schedulables", "validate_webapp_extension", "validate_anvil_extension"}

\* the context holds the descriptor an executed validate_extension_class
\* published
DescriptorPublished ==
    /\ "descriptor" \in DOMAIN context
    /\ \E k \in 1..Len(outcomes) :
           /\ validators[k] = "validate_extension_class"
           /\ "descriptor" \in DOMAIN outcomes[k].context
           /\ outcomes[k].context.descriptor = context.descriptor

\* C12: whenever one of the six checks that read extension_classes is the
\* next to execute, the context holds a non-empty extension_classes
\* registry; whenever validate_webapp_extension is the next to execute, the
\* context holds the descriptor validate_extension_class published; and
\* validate_docker_compose_yml returned no context update.
C12_KeysPublished ==
    /\ Pending /\ NextCheck \in RegistryReaders =>
           /\ "extension_classes" \in DOMAIN context
           /\ DOMAIN context.extension_classes # {}
    /\ Pending /\ NextCheck = "validate_webapp_extension" => DescriptorPublished
    /\ \A k \in 1..Len(outcomes) :
           validators[k] = "validate_docker_compose_yml" =>
               outcomes[k].context = EmptyDict

\* C12 witness: validate_webapp_extension is about to read the descriptor
\* of a web app class, after validate_docker_compose_yml and
\* validate_extension_class ran
C12_Witness ==
    /\ Pending
    /\ NextCheck = "validate_webapp_extension"
    /\ Len(outcomes) = 6
    /\ outcomes[2].context = EmptyDict
    /\ "webapp" \in DOMAIN context.extension_classes
    /\ context.extension_classes["webapp"].wrapped
    /\ context.extension_classes["webapp"].has_router_function
    /\ DescriptorPublished

=============================================================================
